---- MODULE Spec2Model ----
(***************************************************************************)
(* Model of streamlit_app.py: the upload / cleaning / filtering / chart    *)
(* script of the Ramadan campaign dashboard.  One run of the script is a   *)
(* walk of pc through the stages of the script, in the order of the source.*)
(*                                                                         *)
(* Text is a sequence of one-character strings.  A pandas value that may   *)
(* be None is a sequence of length 0 (None) or 1 (the value).              *)
(***************************************************************************)
EXTENDS Integers, Sequences, FiniteSets, TLC

VARIABLES
    uploaded,                \* st.file_uploader result: what read_csv will see
    pc,                      \* position of the script run
    df,                      \* None or the DataFrame
    error,                   \* which st.error the run displayed
    missing_cols,            \* list shown by the missing-columns st.error
    initial_na_engagements,  \* None or df['engagements'].isnull().sum()
    csv_cleaned,             \* None or the rows handed to the download button
    executed,                \* stages of the script this run has executed
    date_range,              \* value returned by st.sidebar.date_input
    start_date,              \* pd.to_datetime(start_date)
    end_date,                \* pd.to_datetime(end_date)
    df_filtered,             \* rows of df_filtered
    selected_platforms,
    selected_sentiments,
    selected_media_types,
    selected_locations,
    sentiment_counts,
    media_type_counts,
    daily_engagements,
    platform_engagements,
    location_engagements,
    openrouter_api_key,      \* the API key typed in the sidebar ("" when none)
    selected_model,
    client,                  \* None or the OpenAI client, known by its key
    insight_cache,           \* st.cache_data store of get_insights
    provider_calls,          \* the requests sent to the provider, in order
    data_description,        \* the *_description texts of this run, by chart
    figures_for_pdf,
    insights_for_pdf,
    pdf,                     \* what the report button did in this run
    reruns                   \* reruns of the script since the page was opened

vars == <<uploaded, pc, df, error, missing_cols, initial_na_engagements,
          csv_cleaned, executed, date_range, start_date, end_date,
          df_filtered, selected_platforms, selected_sentiments,
          selected_media_types, selected_locations, sentiment_counts,
          media_type_counts, daily_engagements, platform_engagements,
          location_engagements, openrouter_api_key, selected_model, client,
          insight_cache, provider_calls, data_description, figures_for_pdf,
          insights_for_pdf, pdf, reruns>>

None == <<>>
Some(x) == <<x>>

-----------------------------------------------------------------------------
(* Text helpers: Python str.strip / str.replace / str.lower.               *)

UpperChars == <<"A","B","C","D","E","F","G","H","I","J","K","L","M",
                "N","O","P","Q","R","S","T","U","V","W","X","Y","Z">>
LowerChars == <<"a","b","c","d","e","f","g","h","i","j","k","l","m",
                "n","o","p","q","r","s","t","u","v","w","x","y","z">>

\* the characters str.strip() removes (str.isspace)
Whitespace == {" ", "\t", "\n", "\r"}

IsUpper(c) == \E i \in 1..Len(UpperChars) : UpperChars[i] = c

\* str.lower on one character
LowerChar(c) ==
    IF IsUpper(c)
    THEN LowerChars[CHOOSE i \in 1..Len(UpperChars) : UpperChars[i] = c]
    ELSE c

\* str.lower
Lower(s) == [i \in 1..Len(s) |-> LowerChar(s[i])]

\* str.replace(' ', '_'): only the space character, no other whitespace
ReplaceSpaces(s) == [i \in 1..Len(s) |-> IF s[i] = " " THEN "_" ELSE s[i]]

RECURSIVE LStrip(_)
LStrip(s) ==
    IF s # <<>> /\ Head(s) \in Whitespace THEN LStrip(Tail(s)) ELSE s

RECURSIVE RStrip(_)
RStrip(s) ==
    IF s # <<>> /\ s[Len(s)] \in Whitespace
    THEN RStrip(SubSeq(s, 1, Len(s) - 1))
    ELSE s

\* str.strip
Strip(s) == RStrip(LStrip(s))

\* mutant: spaces replaced before the header is trimmed
NormalizeReplaceFirst(col) == Lower(Strip(ReplaceSpaces(col)))

\* col.strip().replace(' ', '_').lower()
Normalize(col) == Lower(ReplaceSpaces(Strip(col)))

\* required_columns
c_date        == <<"d","a","t","e">>
c_platform    == <<"p","l","a","t","f","o","r","m">>
c_sentiment   == <<"s","e","n","t","i","m","e","n","t">>
c_location    == <<"l","o","c","a","t","i","o","n">>
c_engagements == <<"e","n","g","a","g","e","m","e","n","t","s">>
c_media_type  == <<"m","e","d","i","a","_","t","y","p","e">>

required_columns ==
    <<c_date, c_platform, c_sentiment, c_location, c_engagements, c_media_type>>

Range(s) == {s[i] : i \in 1..Len(s)}

RECURSIVE SelectSeq2(_, _)
\* [x for x in s if Test(x)], Test given as a set of accepted values
SelectSeq2(s, keep) ==
    IF s = <<>> THEN <<>>
    ELSE IF Head(s) \in keep
         THEN <<Head(s)>> \o SelectSeq2(Tail(s), keep)
         ELSE SelectSeq2(Tail(s), keep)

-----------------------------------------------------------------------------
(* Cells of the uploaded CSV.                                              *)

MaxRows == 2        \* data rows of an upload
TicksPerDay == 2    \* instants of a day a date cell can name (0 is midnight)

\* a date cell: empty, text that is no date, or the text of day d, instant t
DateNA       == [k |-> "na",  d |-> 0, t |-> 0]
DateBad      == [k |-> "bad", d |-> 0, t |-> 0]
DateAt(d, t) == [k |-> "ts",  d |-> d, t |-> t]

\* an engagements cell: empty, the text of the number v, or the text "abc"
EngNA      == [k |-> "na",   v |-> 0]
EngNum(v)  == [k |-> "num",  v |-> v]
EngText    == [k |-> "text", v |-> 0]

\* rows as written in the file: date, platform, sentiment, location,
\* engagements, media type
RowPool ==
    { <<DateAt(0, 0), "Facebook",  "Positive", "Dubai", EngNum(3), "Image">>,
      <<DateAt(1, 1), "Instagram", "Negative", "Cairo", EngNum(1), "Video">>,
      <<DateAt(1, 0), "Instagram", "Positive", "Dubai", EngNum(3), "Image">>,
      <<DateAt(0, 1), "Facebook",  "Positive", "Cairo", EngNA,     "Video">>,
      <<DateNA,       "Facebook",  "Negative", "Cairo", EngNum(2), "Image">>,
      <<DateBad,      "Instagram", "Negative", "Dubai", EngNA,     "Video">>,
      <<DateAt(1, 0), "Facebook",  "Negative", "Dubai", EngText,   "Image">> }

Tables == UNION { [1..n -> RowPool] : n \in 0..MaxRows }

h_Date        == <<"D","a","t","e">>
h_date_padded == <<" ","d","a","t","e"," ">>
h_Dates       == <<"D","a","t","e","s">>
h_Platform    == <<"P","l","a","t","f","o","r","m">>
h_PLATFORM    == <<"P","L","A","T","F","O","R","M">>
h_Sentiment   == <<"S","e","n","t","i","m","e","n","t">>
h_Location    == <<"L","o","c","a","t","i","o","n">>
h_Engagements == <<"E","n","g","a","g","e","m","e","n","t","s">>
h_Engagement  == <<"E","n","g","a","g","e","m","e","n","t">>
h_Media_Type  == <<"M","e","d","i","a"," ","T","y","p","e">>
h_MEDIA_TYPE  == <<"\t","M","E","D","I","A","_","T","Y","P","E">>
h_MediaType   == <<"M","e","d","i","a","T","y","p","e">>

\* header lines of the uploads; the normalised names of one line are distinct
HeaderRows ==
    { <<h_Date, h_Platform, h_Sentiment, h_Location, h_Engagements, h_Media_Type>>,
      <<h_date_padded, h_PLATFORM, c_sentiment, c_location, c_engagements, h_MEDIA_TYPE>>,
      <<h_Dates, h_Platform, h_Sentiment, h_Location, h_Engagements, h_Media_Type>>,
      <<h_Date, h_Platform, h_Sentiment, h_Location, h_Engagement, h_MediaType>> }

\* what the uploader can hand to the script
Uploads ==
    { [status |-> "none", headers |-> <<>>, rows |-> <<>>],
      [status |-> "empty_data", headers |-> <<>>, rows |-> <<>>],
      [status |-> "parse_error", headers |-> <<>>, rows |-> <<>>] }
    \cup { [status |-> "ok", headers |-> h, rows |-> r] :
              h \in HeaderRows, r \in Tables }

-----------------------------------------------------------------------------
(* pandas helpers.                                                         *)

\* position of the column named name (df[name])
ColIndex(frame, name) ==
    CHOOSE i \in 1..Len(frame.columns) : frame.columns[i] = name

\* df[name] as the sequence of its cells
Column(frame, name) ==
    [i \in 1..Len(frame.rows) |-> frame.rows[i][ColIndex(frame, name)]]

\* df[name] = cells
SetColumn(frame, name, cells) ==
    [frame EXCEPT !.rows =
        [i \in 1..Len(frame.rows) |->
            [frame.rows[i] EXCEPT ![ColIndex(frame, name)] = cells[i]]]]

\* decimal text of a number, as character codes
RECURSIVE Digits(_)
Digits(n) == IF n < 10 THEN <<48 + n>> ELSE Digits(n \div 10) \o <<48 + (n % 10)>>

\* character codes of the text "abc"
TextAbc == <<97, 98, 99>>

\* an engagements value of the frame: NaN, a number, or a str (object dtype)
NaN      == [k |-> "na",  v |-> 0, s |-> <<>>]
Num(v)   == [k |-> "num", v |-> v, s |-> <<>>]
Str(s)   == [k |-> "str", v |-> 0, s |-> s]

\* pd.read_csv type inference for the fifth column of the file: a column
\* whose non-empty cells are all numbers is numeric, any other column keeps
\* the text of every cell
InferEngagements(cells) ==
    LET object == \E i \in 1..Len(cells) : cells[i].k = "text"
    IN  [i \in 1..Len(cells) |->
            IF cells[i].k = "na" THEN NaN
            ELSE IF ~object THEN Num(cells[i].v)
            ELSE IF cells[i].k = "num" THEN Str(Digits(cells[i].v))
            ELSE Str(TextAbc)]

\* the frame pd.read_csv returns for a well-formed file
ReadCsvFrame(file) ==
    LET eng == InferEngagements([i \in 1..Len(file.rows) |-> file.rows[i][5]])
    IN  [columns |-> file.headers,
         rows |-> [i \in 1..Len(file.rows) |->
                      [file.rows[i] EXCEPT ![5] = eng[i]]]]

\* the missing timestamp
NaT == -1

\* pd.to_datetime of one cell: an empty cell is NaT, a date text is its instant
ToDatetimeCell(c) == IF c.k = "ts" THEN c.d * TicksPerDay + c.t ELSE NaT

\* mutant: errors='coerce', no cell makes the conversion raise
ToDatetimeRaisesCoerce(cells) == FALSE

\* pd.to_datetime(df['date']) raises when a cell holds text that is no date
ToDatetimeRaises(cells) == \E i \in 1..Len(cells) : cells[i].k = "bad"

\* pd.to_datetime(df['date'])
ToDatetime(cells) == [i \in 1..Len(cells) |-> ToDatetimeCell(cells[i])]

\* Series.isnull().sum()
RECURSIVE CountNull(_)
CountNull(cells) ==
    IF cells = <<>> THEN 0
    ELSE (IF Head(cells).k = "na" THEN 1 ELSE 0) + CountNull(Tail(cells))

\* Series.fillna(0)
FillNa(cells) ==
    [i \in 1..Len(cells) |-> IF cells[i].k = "na" THEN Num(0) ELSE cells[i]]

-----------------------------------------------------------------------------
(* The script, lines 328-391: upload, read, clean.                         *)

\* the options of the model selectbox; index=0 is the value shown first
Models == <<"google/gemma-3n-e4b-it:free",
            "nousresearch/deephermes-3-mistral-24b-preview:free",
            "meta-llama/llama-3.3-8b-instruct:free">>

\* the page as first opened: no file, no API key (client = None), the first
\* model, an empty st.cache_data store
Init ==
    /\ uploaded = [status |-> "none", headers |-> <<>>, rows |-> <<>>]
    /\ pc = "start"
    /\ df = None
    /\ error = "none"
    /\ missing_cols = <<>>
    /\ initial_na_engagements = None
    /\ csv_cleaned = None
    /\ executed = {}
    /\ date_range = <<>>
    /\ start_date = NaT
    /\ end_date = NaT
    /\ df_filtered = <<>>
    /\ selected_platforms = {}
    /\ selected_sentiments = {}
    /\ selected_media_types = {}
    /\ selected_locations = {}
    /\ sentiment_counts = <<>>
    /\ media_type_counts = <<>>
    /\ daily_engagements = <<>>
    /\ platform_engagements = <<>>
    /\ location_engagements = <<>>
    /\ openrouter_api_key = ""
    /\ selected_model = Models[1]
    /\ client = None
    /\ insight_cache = <<>>
    /\ provider_calls = <<>>
    /\ data_description = <<>>
    /\ figures_for_pdf = {}
    /\ insights_for_pdf = <<>>
    /\ pdf = "none"
    /\ reruns = 0

cleaning_vars == <<df, error, missing_cols, initial_na_engagements, csv_cleaned>>
filter_vars == <<date_range, start_date, end_date, df_filtered,
                 selected_platforms, selected_sentiments,
                 selected_media_types, selected_locations>>
chart_vars == <<sentiment_counts, media_type_counts, daily_engagements,
                platform_engagements, location_engagements>>
sidebar_vars == <<openrouter_api_key, selected_model, client>>
insight_vars == <<insight_cache, provider_calls, data_description,
                  insights_for_pdf>>
report_vars == <<figures_for_pdf, pdf>>
session_vars == <<sidebar_vars, insight_vars, report_vars, reruns>>

\* uploaded_file = st.file_uploader(...); df = None
FileUploader ==
    /\ pc = "start"
    /\ \E file \in Uploads : uploaded' = file
    /\ pc' = "uploaded"
    /\ UNCHANGED <<cleaning_vars, executed, filter_vars, chart_vars, session_vars>>

\* else branch of `if uploaded_file is not None`: the st.info tip
NoFile ==
    /\ pc = "uploaded"
    /\ uploaded.status = "none"
    /\ pc' = "idle"
    /\ UNCHANGED <<uploaded, cleaning_vars, executed, filter_vars, chart_vars, session_vars>>

\* df = pd.read_csv(uploaded_file); an EmptyDataError (no header line) or a
\* ParserError reaches the outer except: st.error("Error reading file"),
\* df = None
ReadCsv ==
    /\ pc = "uploaded"
    /\ uploaded.status # "none"
    /\ executed' = executed \cup {"read_csv"}
    /\ IF uploaded.status = "ok"
       THEN /\ df' = Some(ReadCsvFrame(uploaded))
            /\ pc' = "read"
            /\ error' = error
       ELSE /\ df' = None
            /\ pc' = "failed"
            /\ error' = "read_error"
    /\ UNCHANGED <<uploaded, missing_cols, initial_na_engagements, csv_cleaned,
                   filter_vars, chart_vars, session_vars>>

\* df.columns = [col.strip().replace(' ', '_').lower() for col in df.columns]
NormalizeColumns ==
    /\ pc = "read"
    /\ df' = Some([df[1] EXCEPT !.columns =
                      [i \in 1..Len(df[1].columns) |-> Normalize(df[1].columns[i])]])
    /\ executed' = executed \cup {"normalize"}
    /\ pc' = "normalized"
    /\ UNCHANGED <<uploaded, error, missing_cols, initial_na_engagements,
                   csv_cleaned, filter_vars, chart_vars, session_vars>>

\* mutant: the first required column that is absent ends the search
MissingColsFirstOnly(columns) ==
    LET m == SelectSeq2(required_columns,
                        {c \in Range(required_columns) : c \notin Range(columns)})
    IN  IF m = <<>> THEN <<>> ELSE <<Head(m)>>

\* [col for col in required_columns if col not in df.columns]
MissingCols(columns) ==
    SelectSeq2(required_columns,
               {c \in Range(required_columns) : c \notin Range(columns)})

\* the required-column check: st.error and df = None when a name is absent
CheckRequired ==
    /\ pc = "normalized"
    /\ executed' = executed \cup {"check_required"}
    /\ IF ~ (\A i \in 1..Len(required_columns) :
                required_columns[i] \in Range(df[1].columns))
       THEN /\ missing_cols' = MissingCols(df[1].columns)
            /\ error' = "missing_columns"
            /\ df' = None
       ELSE UNCHANGED <<missing_cols, error, df>>
    /\ pc' = "checked"
    /\ UNCHANGED <<uploaded, initial_na_engagements, csv_cleaned,
                   filter_vars, chart_vars, session_vars>>

\* first `if df is not None`: df['date'] = pd.to_datetime(df['date']); the
\* inner except shows the date error and sets df = None
ConvertDate ==
    /\ pc = "checked"
    /\ IF df # None
       THEN /\ executed' = executed \cup {"to_datetime"}
            /\ IF ToDatetimeRaises(Column(df[1], c_date))
               THEN /\ error' = "date_conversion"
                    /\ df' = None
               ELSE /\ df' = Some(SetColumn(df[1], c_date,
                                            ToDatetime(Column(df[1], c_date))))
                    /\ error' = error
       ELSE UNCHANGED <<executed, error, df>>
    /\ pc' = "dated"
    /\ UNCHANGED <<uploaded, missing_cols, initial_na_engagements, csv_cleaned,
                   filter_vars, chart_vars, session_vars>>

\* second `if df is not None`, lines 366-391: fill the missing engagements,
\* show the snapshot, offer the cleaned data for download; with df None the
\* script has nothing left to run
FillEngagements ==
    /\ pc = "dated"
    /\ IF df # None
       THEN /\ initial_na_engagements' =
                   Some(CountNull(Column(df[1], c_engagements)))
            /\ df' = Some(SetColumn(df[1], c_engagements,
                                    FillNa(Column(df[1], c_engagements))))
            /\ csv_cleaned' = Some(df'[1].rows)
            /\ executed' = executed \cup {"fill_engagements", "download"}
            /\ pc' = "cleaned"
       ELSE /\ pc' = "ended"
            /\ UNCHANGED <<initial_na_engagements, df, csv_cleaned, executed>>
    /\ UNCHANGED <<uploaded, error, missing_cols, filter_vars, chart_vars, session_vars>>

-----------------------------------------------------------------------------
(* The script, lines 395-475: the sidebar filters.                         *)

\* the outer `except Exception`: st.error("Error reading file"), df = None
OuterExcept ==
    /\ error' = "read_error"
    /\ df' = None
    /\ pc' = "failed"

\* Timestamp.date(): the calendar day of an instant
ToDate(ts) == ts \div TicksPerDay

\* pd.to_datetime(date): midnight of a calendar day
FromDate(day) == day * TicksPerDay

\* Series.min() / Series.max(): NaT is skipped, NaT when nothing is left
SeriesMin(cells) ==
    IF \A i \in 1..Len(cells) : cells[i] = NaT THEN NaT
    ELSE CHOOSE m \in Range(cells) \ {NaT} :
            \A x \in Range(cells) \ {NaT} : m <= x

SeriesMax(cells) ==
    IF \A i \in 1..Len(cells) : cells[i] = NaT THEN NaT
    ELSE CHOOSE m \in Range(cells) \ {NaT} :
            \A x \in Range(cells) \ {NaT} : m >= x

\* a comparison of datetime64 values: False as soon as one side is NaT
DateGE(a, b) == a # NaT /\ b # NaT /\ a >= b
DateLE(a, b) == a # NaT /\ b # NaT /\ a <= b

RECURSIVE FilterRows(_, _, _)
\* df[df[col].isin(allowed)] on the rows, col given by its position
FilterRows(rows, idx, allowed) ==
    IF rows = <<>> THEN <<>>
    ELSE IF Head(rows)[idx] \in allowed
         THEN <<Head(rows)>> \o FilterRows(Tail(rows), idx, allowed)
         ELSE FilterRows(Tail(rows), idx, allowed)

RECURSIVE FilterDates(_, _, _, _)
\* df[(df['date'] >= start) & (df['date'] <= end)]
FilterDates(rows, idx, start, end) ==
    IF rows = <<>> THEN <<>>
    ELSE IF DateGE(Head(rows)[idx], start) /\ DateLE(Head(rows)[idx], end)
         THEN <<Head(rows)>> \o FilterDates(Tail(rows), idx, start, end)
         ELSE FilterDates(Tail(rows), idx, start, end)

\* the tuples st.date_input can return between min_value and max_value:
\* nothing, a start alone, or a start and an end
DateRanges(min_date, max_date) ==
    LET days == ToDate(min_date)..ToDate(max_date)
    IN  {<<>>} \cup {<<a>> : a \in days}
        \cup {<<a, b>> : a \in days, b \in days}

\* the value shown when the widget is left alone: value=(min_date, max_date)
DefaultDateRange(min_date, max_date) == <<ToDate(min_date), ToDate(max_date)>>

\* lines 399-418: the date widget and the date filter.  With no date in the
\* column min_date is NaT, which st.date_input either rejects with an
\* exception (outer except) or hands back, and then no row passes the filter.
DateInput ==
    /\ pc = "cleaned"
    /\ LET dates == Column(df[1], c_date)
           min_date == SeriesMin(dates)
           max_date == SeriesMax(dates)
           idx == ColIndex(df[1], c_date)
       IN  IF min_date = NaT
           THEN \/ /\ OuterExcept
                   /\ UNCHANGED <<executed, filter_vars>>
                \/ /\ date_range' = <<>>
                   /\ start_date' = min_date
                   /\ end_date' = max_date
                   /\ df_filtered' = FilterDates(df[1].rows, idx, min_date, max_date)
                   /\ executed' = executed \cup {"date_filter"}
                   /\ pc' = "date_filtered"
                   /\ UNCHANGED <<df, error, selected_platforms,
                                  selected_sentiments, selected_media_types,
                                  selected_locations>>
           ELSE \E dr \in DateRanges(min_date, max_date) :
                LET start == IF Len(dr) = 0 THEN min_date ELSE FromDate(dr[1])
                    end   == IF Len(dr) = 2 THEN FromDate(dr[2]) ELSE max_date
                IN  /\ (Len(dr) = 2 => dr[1] <= dr[2])
                    /\ date_range' = dr
                    /\ start_date' = start
                    /\ end_date' = end
                    /\ df_filtered' = FilterDates(df[1].rows, idx, start, end)
                    /\ executed' = executed \cup {"date_filter"}
                    /\ pc' = "date_filtered"
                    /\ UNCHANGED <<df, error, selected_platforms,
                                   selected_sentiments, selected_media_types,
                                   selected_locations>>
    /\ UNCHANGED <<uploaded, missing_cols, initial_na_engagements, csv_cleaned,
                   chart_vars, session_vars>>

\* Series.unique(): the distinct values of a column of df_filtered
Unique(rows, idx) == {rows[i][idx] : i \in 1..Len(rows)}

\* `if selected: df_filtered = df_filtered[df_filtered[col].isin(selected)]`
ApplySelection(rows, idx, selection) ==
    IF selection # {} THEN FilterRows(rows, idx, selection) ELSE rows

\* lines 420-429
PlatformFilter ==
    /\ pc = "date_filtered"
    /\ LET idx == ColIndex(df[1], c_platform)
       IN  \E sel \in SUBSET Unique(df_filtered, idx) :
              /\ selected_platforms' = sel
              /\ df_filtered' = ApplySelection(df_filtered, idx, sel)
    /\ executed' = executed \cup {"platform_filter"}
    /\ pc' = "platform_filtered"
    /\ UNCHANGED <<uploaded, cleaning_vars, date_range, start_date, end_date,
                   selected_sentiments, selected_media_types,
                   selected_locations, chart_vars, session_vars>>

\* lines 431-440
SentimentFilter ==
    /\ pc = "platform_filtered"
    /\ LET idx == ColIndex(df[1], c_sentiment)
       IN  \E sel \in SUBSET Unique(df_filtered, idx) :
              /\ selected_sentiments' = sel
              /\ df_filtered' = ApplySelection(df_filtered, idx, sel)
    /\ executed' = executed \cup {"sentiment_filter"}
    /\ pc' = "sentiment_filtered"
    /\ UNCHANGED <<uploaded, cleaning_vars, date_range, start_date, end_date,
                   selected_platforms, selected_media_types,
                   selected_locations, chart_vars, session_vars>>

\* lines 442-451
MediaTypeFilter ==
    /\ pc = "sentiment_filtered"
    /\ LET idx == ColIndex(df[1], c_media_type)
       IN  \E sel \in SUBSET Unique(df_filtered, idx) :
              /\ selected_media_types' = sel
              /\ df_filtered' = ApplySelection(df_filtered, idx, sel)
    /\ executed' = executed \cup {"media_type_filter"}
    /\ pc' = "media_type_filtered"
    /\ UNCHANGED <<uploaded, cleaning_vars, date_range, start_date, end_date,
                   selected_platforms, selected_sentiments,
                   selected_locations, chart_vars, session_vars>>

\* lines 453-462
LocationFilter ==
    /\ pc = "media_type_filtered"
    /\ LET idx == ColIndex(df[1], c_location)
       IN  \E sel \in SUBSET Unique(df_filtered, idx) :
              /\ selected_locations' = sel
              /\ df_filtered' = ApplySelection(df_filtered, idx, sel)
    /\ executed' = executed \cup {"location_filter"}
    /\ pc' = "filtered"
    /\ UNCHANGED <<uploaded, cleaning_vars, date_range, start_date, end_date,
                   selected_platforms, selected_sentiments,
                   selected_media_types, chart_vars, session_vars>>

\* mutant: the run goes on to the charts whatever the rows
AfterGuardNoStop(rows) == "chart_sentiment"

\* `if df_filtered.empty: st.warning(...); st.stop()`: where the run is next
AfterGuard(rows) == IF rows = <<>> THEN "stopped" ELSE "chart_sentiment"

\* lines 473-475
EmptyGuard ==
    /\ pc = "filtered"
    /\ pc' = AfterGuard(df_filtered)
    /\ UNCHANGED <<uploaded, cleaning_vars, executed, filter_vars, chart_vars, session_vars>>

-----------------------------------------------------------------------------
(* The aggregates behind the charts.                                       *)

\* the cells of column idx of the rows whose column key holds value
GroupCells(rows, key, value, idx) ==
    LET grp == FilterRows(rows, key, {value})
    IN  [i \in 1..Len(grp) |-> grp[i][idx]]

\* Series.value_counts(): the number of rows of each distinct value (the
\* order among equal counts is not fixed by pandas and is left out)
ValueCounts(rows, idx) ==
    {<<v, Len(FilterRows(rows, idx, {v}))>> : v \in Unique(rows, idx)}

RECURSIVE SumNum(_)
SumNum(cells) ==
    IF cells = <<>> THEN 0 ELSE Head(cells).v + SumNum(Tail(cells))

RECURSIVE Concat(_)
Concat(cells) ==
    IF cells = <<>> THEN <<>> ELSE Head(cells).s \o Concat(Tail(cells))

\* `+` of a number and a str: the TypeError of an object column that holds
\* both (a 0 written by fillna next to text)
MixedKinds(cells) ==
    /\ \E i \in 1..Len(cells) : cells[i].k = "num"
    /\ \E i \in 1..Len(cells) : cells[i].k = "str"

\* groupby(...)['engagements'].sum() of one group: numbers add, text is
\* concatenated in row order
GroupSum(cells) ==
    IF cells[1].k = "num" THEN Num(SumNum(cells)) ELSE Str(Concat(cells))

RECURSIVE LexLess(_, _)
\* str < str
LexLess(a, b) ==
    IF b = <<>> THEN FALSE
    ELSE IF a = <<>> THEN TRUE
    ELSE IF Head(a) # Head(b) THEN Head(a) < Head(b)
    ELSE LexLess(Tail(a), Tail(b))

\* x >= y between two totals of the same kind
TotalGE(x, y) ==
    IF x.k = "num" THEN x.v >= y.v ELSE ~ LexLess(x.s, y.s)

\* the orders of a set of (key, total) pairs
Orderings(pairs) ==
    {q \in [1..Cardinality(pairs) -> pairs] :
        \A i, j \in 1..Cardinality(pairs) : i # j => q[i] # q[j]}

\* sort_values(ascending=False): every order with non-increasing totals (the
\* default quicksort fixes no order among equal totals)
SortedDescending(pairs) ==
    {q \in Orderings(pairs) :
        \A i \in 1..(Len(q) - 1) : TotalGE(q[i][2], q[i + 1][2])}

\* the rows of groupby(key)['engagements'].sum(): one (key, total) per value
GroupTotals(rows, key, idx) ==
    {<<v, GroupSum(GroupCells(rows, key, v, idx))>> : v \in Unique(rows, key)}

\* a group whose sum raises
GroupRaises(rows, key, idx) ==
    \E v \in Unique(rows, key) : MixedKinds(GroupCells(rows, key, v, idx))

-----------------------------------------------------------------------------
(* get_insights, lines 169-197, and the `if client:` block of each chart.   *)

MaxFailures == 1    \* requests the provider fails in one session

\* what one request to the provider can end in: the text of a completion, or
\* an exception raised by client.chat.completions.create
ProviderContents == {"1. ... 2. ... 3. ..."}
ProviderErrors == {"APIError"}
ProviderReplies == ProviderContents \cup ProviderErrors

\* f[k] = v on a dict
Put(f, k, v) ==
    [x \in DOMAIN f \cup {k} |-> IF x = k THEN v ELSE f[x]]

\* a label of an index: a str of a text column, or a timestamp
Label(s)     == [k |-> "str", s |-> s, v |-> 0]
DateLabel(t) == [k |-> "ts",  s |-> "", v |-> t]

\* a float below 1 printed with the six decimals pandas shows, as the digits
\* of the rounded millionths
FloatText(n, total) == Digits((2 * n * 1000000 + total) \div (2 * total))

\* the text of a total: the digits of a number, the characters of a str
TotalText(x) == IF x.k = "num" THEN Digits(x.v) ELSE x.s

\* value_counts(normalize=True): the counts in non-increasing order (no order
\* is fixed among equal counts), each divided by the number of rows
CountsDescending(pairs) ==
    {q \in Orderings(pairs) :
        \A i \in 1..(Len(q) - 1) : q[i][2] >= q[i + 1][2]}

\* Series.to_string() of the proportions: one line per label
ProportionsToString(name, q, total) ==
    [columns |-> <<name>>,
     lines |-> [i \in 1..Len(q) |-> <<Label(q[i][1]), FloatText(q[i][2], total)>>]]

\* df_filtered[col].value_counts(normalize=True).to_string()
CountsDescriptions(name, rows, idx) ==
    {ProportionsToString(name, q, Len(rows)) :
        q \in CountsDescending(ValueCounts(rows, idx))}

\* daily_engagements.to_string(): one line per date
TrendToString(entries) ==
    [columns |-> <<"date", "engagements">>,
     lines |-> [i \in 1..Len(entries) |->
                  <<DateLabel(entries[i][1]), TotalText(entries[i][2])>>]]

\* platform_engagements.to_string() / location_engagements.to_string()
TotalsToString(name, entries) ==
    [columns |-> <<name, "engagements">>,
     lines |-> [i \in 1..Len(entries) |->
                  <<Label(entries[i][1]), TotalText(entries[i][2])>>]]

\* mutant: the description is left out of the cache key
CacheKeyNoDescription(data_description_, chart_title, model_name) ==
    <<TotalsToString("", <<>>), chart_title, model_name>>

\* st.cache_data keys an entry on the arguments of the call
CacheKey(data_description_, chart_title, model_name) ==
    <<data_description_, chart_title, model_name>>

\* mutant: no entry is ever found
CacheNeverHit(key) == FALSE

\* st.cache_data: the call was made before with these arguments
CacheHit(key) == key \in DOMAIN insight_cache

\* mutant: no exception is caught
CaughtNothing(e) == FALSE

\* `except Exception as e`: every exception of the request is an Exception
Caught(e) == e \in ProviderErrors

\* what the body of get_insights returns: the content of the completion, or
\* the f-string of the except clause
Returned(reply) ==
    IF reply \in ProviderErrors
    THEN "Error generating insights: " \o reply
    ELSE reply

\* requests that ended in an exception
Failures(calls) ==
    Cardinality({i \in 1..Len(calls) : calls[i].reply \in ProviderErrors})

\* get_insights(description, chart_title, selected_model) and the two lines
\* after it: a cached result is returned without a request; otherwise the
\* request is sent and what the body returns is stored and shown.  (The
\* `if not client` line of the body is never reached: every call is under
\* `if client:`.)
GetInsights(figure, chart_title, description, next) ==
    LET key == CacheKey(description, chart_title, selected_model)
    IN  IF CacheHit(key)
        THEN /\ insights_for_pdf' = Put(insights_for_pdf, figure, insight_cache[key])
             /\ pc' = next
             /\ UNCHANGED <<insight_cache, provider_calls, df, error>>
        ELSE \E reply \in ProviderReplies :
             /\ reply \in ProviderErrors => Failures(provider_calls) < MaxFailures
             /\ provider_calls' =
                   Append(provider_calls,
                          [run |-> reruns, api_key |-> client[1],
                           description |-> description, title |-> chart_title,
                           model |-> selected_model, reply |-> reply])
             /\ IF reply \in ProviderErrors /\ ~ Caught(reply)
                THEN /\ OuterExcept
                     /\ UNCHANGED <<insight_cache, insights_for_pdf>>
                ELSE /\ insight_cache' = Put(insight_cache, key, Returned(reply))
                     /\ insights_for_pdf' =
                           Put(insights_for_pdf, figure, Returned(reply))
                     /\ pc' = next
                     /\ UNCHANGED <<df, error>>

\* the `if client:` block under a chart; descriptions are the texts the
\* to_string() of the aggregate can give
Insight(figure, chart_title, descriptions, next) ==
    IF client = None
    THEN /\ pc' = next
         /\ UNCHANGED <<insight_vars, df, error>>
    ELSE \E d \in descriptions :
            /\ data_description' = Put(data_description, figure, d)
            /\ GetInsights(figure, chart_title, d, next)

-----------------------------------------------------------------------------
(* The script, lines 488-629: the five charts and the report.              *)

\* chart 1, lines 488-508: df_filtered['sentiment'].value_counts()
ChartSentiment ==
    /\ pc = "chart_sentiment"
    /\ sentiment_counts' = ValueCounts(df_filtered, ColIndex(df[1], c_sentiment))
    /\ executed' = executed \cup {"chart_sentiment"}
    /\ figures_for_pdf' = figures_for_pdf \cup {"1. Sentiment Breakdown"}
    /\ Insight("1. Sentiment Breakdown", "Sentiment Breakdown",
               CountsDescriptions("sentiment", df_filtered,
                                  ColIndex(df[1], c_sentiment)),
               "chart_media_type")
    /\ UNCHANGED <<uploaded, missing_cols, initial_na_engagements, csv_cleaned,
                   filter_vars, media_type_counts, daily_engagements,
                   platform_engagements, location_engagements, sidebar_vars,
                   pdf, reruns>>

\* chart 2, lines 511-530: df_filtered['media_type'].value_counts()
ChartMediaType ==
    /\ pc = "chart_media_type"
    /\ media_type_counts' = ValueCounts(df_filtered, ColIndex(df[1], c_media_type))
    /\ executed' = executed \cup {"chart_media_type"}
    /\ figures_for_pdf' = figures_for_pdf \cup {"2. Media Type Mix"}
    /\ Insight("2. Media Type Mix", "Media Type Mix",
               CountsDescriptions("media_type", df_filtered,
                                  ColIndex(df[1], c_media_type)),
               "chart_trend")
    /\ UNCHANGED <<uploaded, missing_cols, initial_na_engagements, csv_cleaned,
                   filter_vars, sentiment_counts, daily_engagements,
                   platform_engagements, location_engagements, sidebar_vars,
                   pdf, reruns>>

\* chart 3, lines 533-555: groupby('date')['engagements'].sum().reset_index(),
\* the groups in ascending date order
ChartTrend ==
    /\ pc = "chart_trend"
    /\ LET key == ColIndex(df[1], c_date)
           idx == ColIndex(df[1], c_engagements)
           totals == GroupTotals(df_filtered, key, idx)
           sorted == CHOOSE q \in Orderings(totals) :
                        \A i \in 1..(Len(q) - 1) : q[i][1] < q[i + 1][1]
       IN  IF GroupRaises(df_filtered, key, idx)
           THEN /\ OuterExcept
                /\ UNCHANGED <<daily_engagements, executed, figures_for_pdf,
                               insight_vars>>
           ELSE /\ daily_engagements' = sorted
                /\ executed' = executed \cup {"chart_trend"}
                /\ figures_for_pdf' =
                      figures_for_pdf \cup {"3. Engagement Trend Over Time"}
                /\ Insight("3. Engagement Trend Over Time",
                           "Engagement Trend Over Time",
                           {TrendToString(sorted)}, "chart_platform")
    /\ UNCHANGED <<uploaded, missing_cols, initial_na_engagements, csv_cleaned,
                   filter_vars, sentiment_counts, media_type_counts,
                   platform_engagements, location_engagements, sidebar_vars,
                   pdf, reruns>>

\* chart 4, lines 558-578: groupby('platform')['engagements'].sum()
\* .sort_values(ascending=False).reset_index(); comparing a number with a
\* str in the sort raises
ChartPlatform ==
    /\ pc = "chart_platform"
    /\ LET key == ColIndex(df[1], c_platform)
           idx == ColIndex(df[1], c_engagements)
           totals == GroupTotals(df_filtered, key, idx)
       IN  IF \/ GroupRaises(df_filtered, key, idx)
              \/ \E x, y \in totals : x[2].k # y[2].k
           THEN /\ OuterExcept
                /\ UNCHANGED <<platform_engagements, executed, figures_for_pdf,
                               insight_vars>>
           ELSE \E q \in SortedDescending(totals) :
                /\ platform_engagements' = q
                /\ executed' = executed \cup {"chart_platform"}
                /\ figures_for_pdf' =
                      figures_for_pdf \cup {"4. Platform Engagements"}
                /\ Insight("4. Platform Engagements", "Platform Engagements",
                           {TotalsToString("platform", q)}, "chart_locations")
    /\ UNCHANGED <<uploaded, missing_cols, initial_na_engagements, csv_cleaned,
                   filter_vars, sentiment_counts, media_type_counts,
                   daily_engagements, location_engagements, sidebar_vars,
                   pdf, reruns>>

\* the n of nlargest(5)
TopN == 5

\* location names in the order of Python's str comparison
LocationNames ==
    <<"Ankara", "Baku", "Cairo", "Dubai", "Erbil", "Fez", "Giza">>

\* position of a location name in that order
KeyRank(v) == CHOOSE i \in 1..Len(LocationNames) : LocationNames[i] = v

\* the sequence s without its element i
Without(s, i) == SubSeq(s, 1, i - 1) \o SubSeq(s, i + 1, Len(s))

RECURSIVE SortByKey(_)
\* groupby(...) with sort=True: the groups in ascending order of their key
SortByKey(pairs) ==
    IF pairs = {} THEN <<>>
    ELSE LET first == CHOOSE p \in pairs :
                         \A r \in pairs : KeyRank(p[1]) <= KeyRank(r[1])
         IN  <<first>> \o SortByKey(pairs \ {first})

RECURSIVE TakeLargest(_, _)
\* the n largest of a series in index order, keep='first': a stable sort by
\* decreasing value, so equal values stay in the order of the index
TakeLargest(entries, n) ==
    IF n = 0 \/ entries = <<>> THEN <<>>
    ELSE LET i == CHOOSE j \in 1..Len(entries) :
                     /\ \A m \in 1..Len(entries) : entries[j][2].v >= entries[m][2].v
                     /\ \A m \in 1..(j - 1) : entries[m][2].v < entries[j][2].v
         IN  <<entries[i]>> \o TakeLargest(Without(entries, i), n - 1)

\* mutant: the first n groups, whatever their totals
NLargestHead(entries, n) ==
    {SubSeq(entries, 1, IF n < Len(entries) THEN n ELSE Len(entries))}

\* Series.nlargest(n): with n >= len(series) pandas returns
\* sort_values(ascending=False).head(n), any order among equal totals; with
\* more entries it selects and orders them with a stable sort
NLargest(entries, n) ==
    IF n >= Len(entries)
    THEN SortedDescending(Range(entries))
    ELSE {TakeLargest(entries, n)}

\* nlargest raises TypeError on a series of object dtype
ObjectDtype(cells) == \E i \in 1..Len(cells) : cells[i].k = "str"

\* chart 5, lines 581-600: groupby('location')['engagements'].sum()
\* .nlargest(5).reset_index()
ChartLocations ==
    /\ pc = "chart_locations"
    /\ LET key == ColIndex(df[1], c_location)
           idx == ColIndex(df[1], c_engagements)
           totals == GroupTotals(df_filtered, key, idx)
       IN  IF \/ GroupRaises(df_filtered, key, idx)
              \/ ObjectDtype(Column(df[1], c_engagements))
           THEN /\ OuterExcept
                /\ UNCHANGED <<location_engagements, executed, figures_for_pdf,
                               insight_vars>>
           ELSE \E q \in NLargest(SortByKey(totals), TopN) :
                /\ location_engagements' = q
                /\ executed' = executed \cup {"chart_locations"}
                /\ figures_for_pdf' =
                      figures_for_pdf \cup {"5. Top 5 Locations by Engagements"}
                /\ Insight("5. Top 5 Locations by Engagements",
                           "Top 5 Locations by Engagements",
                           {TotalsToString("location", q)}, "report")
    /\ UNCHANGED <<uploaded, missing_cols, initial_na_engagements, csv_cleaned,
                   filter_vars, sentiment_counts, media_type_counts,
                   daily_engagements, platform_engagements, sidebar_vars,
                   pdf, reruns>>

\* what generate_pdf_report can end in: the bytes of the report, or an
\* exception that the try around the call shows with st.error
PdfOutcomes == {"generated", "failed"}

\* lines 603-629: st.success, then the report button; st.button is True in
\* the run that the click started
Report ==
    /\ pc = "report"
    /\ executed' = executed \cup {"complete"}
    /\ \E pressed \in BOOLEAN :
          IF ~ pressed THEN pdf' = "none"
          ELSE IF figures_for_pdf = {} THEN pdf' = "no_charts"
          ELSE \E outcome \in PdfOutcomes : pdf' = outcome
    /\ pc' = "completed"
    /\ UNCHANGED <<uploaded, cleaning_vars, filter_vars, chart_vars,
                   sidebar_vars, insight_vars, figures_for_pdf, reruns>>

\* one run of the script with no API key entered
Next ==
    \/ FileUploader
    \/ NoFile
    \/ ReadCsv
    \/ NormalizeColumns
    \/ CheckRequired
    \/ ConvertDate
    \/ FillEngagements
    \/ DateInput
    \/ PlatformFilter
    \/ SentimentFilter
    \/ MediaTypeFilter
    \/ LocationFilter
    \/ EmptyGuard
    \/ ChartSentiment
    \/ ChartMediaType
    \/ ChartTrend
    \/ ChartPlatform
    \/ ChartLocations
    \/ Report

Spec == Init /\ [][Next]_vars

-----------------------------------------------------------------------------
(* What the properties say about an upload, stated on the file as written. *)

\* x is y, y in upper case, or a space where y is an underscore
CharVariant(x, y) ==
    \/ x = y
    \/ \E i \in 1..Len(UpperChars) : UpperChars[i] = x /\ LowerChars[i] = y
    \/ (x = " " /\ y = "_")

\* h spells the canonical name c up to letter case, a space for an
\* underscore, and whitespace around it
VariantOf(h, c) ==
    \E a \in 0..Len(h) :
        /\ a + Len(c) <= Len(h)
        /\ \A k \in 1..a : h[k] \in Whitespace
        /\ \A k \in (a + Len(c) + 1)..Len(h) : h[k] \in Whitespace
        /\ \A k \in 1..Len(c) : CharVariant(h[a + k], c[k])

\* the required names no header of the file spells
AbsentRequired(headers) ==
    {c \in Range(required_columns) :
        ~ \E i \in 1..Len(headers) : VariantOf(headers[i], c)}

ReadOk == uploaded.status = "ok"

\* the stages after the date conversion
LaterStages ==
    {"fill_engagements", "download", "date_filter", "platform_filter",
     "sentiment_filter", "media_type_filter", "location_filter",
     "chart_sentiment", "chart_media_type", "chart_trend", "chart_platform"}

\* the file's rows whose date cell is a date
ParseableRows == SelectSeq(uploaded.rows, LAMBDA r : r[1].k = "ts")

\* row i of the frame is row r of the file with its date read as an instant;
\* the first four columns other than the date are compared as written
SameRecord(row, r) ==
    /\ row[1] = (IF r[1].k = "ts" THEN r[1].d * TicksPerDay + r[1].t ELSE NaT)
    /\ row[2] = r[2] /\ row[3] = r[3] /\ row[4] = r[4] /\ row[6] = r[6]

-----------------------------------------------------------------------------
(* C1: when a required name is absent after normalisation the run shows    *)
(* the missing-columns error with exactly the absent names, each once, and *)
(* produces no dataset: df is None, nothing is offered for download and no *)
(* later stage runs.  With no name absent there is no such error.          *)
C1_MissingColumnsExact ==
    (ReadOk /\ "check_required" \in executed) =>
        IF AbsentRequired(uploaded.headers) # {}
        THEN /\ error = "missing_columns"
             /\ Range(missing_cols) = AbsentRequired(uploaded.headers)
             /\ Len(missing_cols) = Cardinality(AbsentRequired(uploaded.headers))
             /\ df = None
             /\ csv_cleaned = None
             /\ executed \cap (LaterStages \cup {"to_datetime"}) = {}
        ELSE /\ error # "missing_columns"
             /\ missing_cols = <<>>

\* a finished run that reported two absent names of a file with rows
C1_Witness ==
    /\ pc = "ended"
    /\ error = "missing_columns"
    /\ Len(missing_cols) = 2
    /\ uploaded.rows # <<>>
    /\ df = None


-----------------------------------------------------------------------------
\* an upload the specification treats as a structural failure: nothing to
\* parse, malformed, no data row, a required name absent, or no row with a
\* date that can be read
StructuralFailure ==
    \/ uploaded.status \in {"empty_data", "parse_error"}
    \/ /\ ReadOk
       /\ \/ uploaded.rows = <<>>
          \/ AbsentRequired(uploaded.headers) # {}
          \/ ParseableRows = <<>>

(* C2: after a structural failure (empty input, malformed input, missing   *)
(* columns, every row lost to the date conversion) no later stage of the   *)
(* run executes and the dataset is absent when the run is over.            *)
C2_StructuralFailureIsTerminal ==
    ("read_csv" \in executed /\ StructuralFailure) =>
        /\ executed \cap LaterStages = {}
        /\ (pc \in {"failed", "ended", "stopped"} => df = None)

-----------------------------------------------------------------------------
HasBadDate == \E i \in 1..Len(uploaded.rows) : uploaded.rows[i][1].k = "bad"

-----------------------------------------------------------------------------
(* C4: every record of a dataset that cleaning hands on (the download, the *)
(* filters, the aggregates) has a non-null date.                           *)
C4_NoNullDateDownstream ==
    /\ csv_cleaned # None =>
          \A i \in 1..Len(csv_cleaned[1]) : csv_cleaned[1][i][1] # NaT
    /\ (df # None /\ "fill_engagements" \in executed) =>
          \A i \in 1..Len(df[1].rows) : df[1].rows[i][1] # NaT

-----------------------------------------------------------------------------
(* C5: after a successful cleaning, a row whose engagements cell was       *)
(* missing or non-numeric has engagements 0, a numeric cell is unchanged,  *)
(* no row is dropped by the fill, and the fill count is the number of      *)
(* missing-or-non-numeric cells.                                           *)
C5_EngagementsCoercedToZero ==
    pc = "cleaned" =>
        /\ Len(df[1].rows) = Len(uploaded.rows)
        /\ \A i \in 1..Len(uploaded.rows) :
              IF uploaded.rows[i][5].k = "num"
              THEN df[1].rows[i][5] = Num(uploaded.rows[i][5].v)
              ELSE df[1].rows[i][5] = Num(0)
        /\ initial_na_engagements =
              Some(Cardinality({i \in 1..Len(uploaded.rows) :
                                   uploaded.rows[i][5].k # "num"}))

-----------------------------------------------------------------------------
(* C7: an upload with no data row is rejected as empty input before the    *)
(* headers are normalised: neither the normalisation, the required-column  *)
(* check, the date conversion nor a later stage runs for it.               *)
C7_EmptyInputBeforeNormalization ==
    (uploaded.status = "empty_data" \/ (ReadOk /\ uploaded.rows = <<>>)) =>
        executed \cap ({"normalize", "check_required", "to_datetime"}
                          \cup LaterStages) = {}


-----------------------------------------------------------------------------
\* the date widget at its default and every selection empty or complete
NoFilterSupplied ==
    /\ date_range = DefaultDateRange(SeriesMin(Column(df[1], c_date)),
                                     SeriesMax(Column(df[1], c_date)))
    /\ selected_platforms \in {{}, Unique(df[1].rows, 2)}
    /\ selected_sentiments \in {{}, Unique(df[1].rows, 3)}
    /\ selected_media_types \in {{}, Unique(df[1].rows, 6)}
    /\ selected_locations \in {{}, Unique(df[1].rows, 4)}

(* C8: with no filter supplied the filtered dataset is the cleaned dataset, *)
(* record for record and in the same order.                                *)
C8_NoFilterIsIdentity ==
    (pc = "filtered" /\ NoFilterSupplied) => df_filtered = df[1].rows

-----------------------------------------------------------------------------
\* the record's calendar day lies between the day of start and the day of
\* end, both included
DayInRange(r) ==
    /\ r[1] # NaT /\ start_date # NaT /\ end_date # NaT
    /\ ToDate(start_date) <= ToDate(r[1])
    /\ ToDate(r[1]) <= ToDate(end_date)

\* value passes an allow-set: an empty set restricts nothing
Allowed(value, selection) == selection = {} \/ value \in selection

\* the record satisfies every supplied restriction
Passes(r) ==
    /\ DayInRange(r)
    /\ Allowed(r[2], selected_platforms)
    /\ Allowed(r[3], selected_sentiments)
    /\ Allowed(r[6], selected_media_types)
    /\ Allowed(r[4], selected_locations)

(* C9: the filtered dataset is the subsequence, in the original order, of  *)
(* the cleaned records that satisfy all restrictions at once: date within  *)
(* [start, end] with both end days included, each category in its          *)
(* allow-set, an empty allow-set restricting nothing.                      *)
C9_FilterIsConjunction ==
    pc = "filtered" => df_filtered = SelectSeq(df[1].rows, Passes)

-----------------------------------------------------------------------------
\* sum of the numeric engagements of rows 1..n
RECURSIVE EngagementsUpTo(_, _)
EngagementsUpTo(rows, n) ==
    IF n = 0 THEN 0 ELSE EngagementsUpTo(rows, n - 1) + rows[n][5].v

\* sum of the totals of entries 1..n
RECURSIVE TotalsUpTo(_, _)
TotalsUpTo(entries, n) ==
    IF n = 0 THEN 0 ELSE TotalsUpTo(entries, n - 1) + entries[n][2].v

(* C10: the platform totals hold one entry per distinct platform, are      *)
(* ordered by non-increasing total, and their sum is the sum of the        *)
(* engagements of all records of the filtered dataset.                     *)
C10_PlatformTotals ==
    "chart_platform" \in executed =>
        /\ {platform_engagements[i][1] : i \in 1..Len(platform_engagements)}
              = Unique(df_filtered, 2)
        /\ Len(platform_engagements) = Cardinality(Unique(df_filtered, 2))
        /\ \A i \in 1..Len(platform_engagements) :
              platform_engagements[i][2].k = "num"
        /\ \A i \in 1..Len(df_filtered) : df_filtered[i][5].k = "num"
        /\ \A i \in 1..(Len(platform_engagements) - 1) :
              platform_engagements[i][2].v >= platform_engagements[i + 1][2].v
        /\ TotalsUpTo(platform_engagements, Len(platform_engagements))
              = EngagementsUpTo(df_filtered, Len(df_filtered))


-----------------------------------------------------------------------------
(* Header spellings: the cleaning run on files whose header line spells    *)
(* one required name in a varied way.                                      *)

MaxSubs == 1        \* characters of a required name written differently

\* what may stand in place of a character of a required name
Alts(ch) ==
    IF ch = "_" THEN {" ", "\t", "-"}
    ELSE {UpperChars[CHOOSE i \in 1..Len(LowerChars) : LowerChars[i] = ch],
          "x", " "}

AltChars == {" ", "\t", "-", "x"} \cup Range(UpperChars)

\* c with the characters at the positions of f replaced
Subst(c, f) == [k \in 1..Len(c) |-> IF k \in DOMAIN f THEN f[k] ELSE c[k]]

\* c with up to MaxSubs characters replaced
Substituted(c) ==
    LET sites == {P \in SUBSET (1..Len(c)) : Cardinality(P) <= MaxSubs}
        repl(P) == {f \in [P -> AltChars] : \A k \in P : f[k] \in Alts(c[k])}
    IN  UNION { {Subst(c, f) : f \in repl(P)} : P \in sites }

\* c without one of its characters
Shortened(c) ==
    {SubSeq(c, 1, k - 1) \o SubSeq(c, k + 1, Len(c)) : k \in 1..Len(c)}

\* str.upper
Upper(s) ==
    [k \in 1..Len(s) |->
        IF \E i \in 1..Len(LowerChars) : LowerChars[i] = s[k]
        THEN UpperChars[CHOOSE i \in 1..Len(LowerChars) : LowerChars[i] = s[k]]
        ELSE s[k]]

Pads == {<<>>, <<" ">>, <<"\t">>, <<"\n", " ">>}
Suffixes == {<<>>, <<"s">>}

\* the spellings of the required name c a header line may carry
Spellings(c) ==
    LET bodies == Substituted(c) \cup {Upper(b) : b \in Substituted(c)}
                     \cup Shortened(c)
    IN  {l \o b \o x \o r : l \in Pads, b \in bodies, x \in Suffixes, r \in Pads}

\* a file whose header line is the required names, one of them respelled,
\* followed by one data row
FileUploaderHeaders ==
    /\ pc = "start"
    /\ \E j \in 1..Len(required_columns) :
          \E h \in Spellings(required_columns[j]) :
             uploaded' =
                [status |-> "ok",
                 headers |-> [required_columns EXCEPT ![j] = h],
                 rows |-> << <<DateAt(0, 0), "Facebook", "Positive", "Dubai",
                               EngNum(3), "Image">> >>]
    /\ pc' = "uploaded"
    /\ UNCHANGED <<cleaning_vars, executed, filter_vars, chart_vars, session_vars>>

NextHeaders ==
    \/ FileUploaderHeaders
    \/ ReadCsv
    \/ NormalizeColumns
    \/ CheckRequired
    \/ ConvertDate
    \/ FillEngagements

SpecHeaders == Init /\ [][NextHeaders]_vars

(* C6: a header becomes a required name under the normalisation exactly    *)
(* when it spells that name up to letter case, a space for an underscore   *)
(* and surrounding whitespace; the required-column check runs on the       *)
(* normalised names, so it fails exactly when some required name has no    *)
(* such spelling in the header line.                                       *)
C6_NormalizationMatchesSpellings ==
    /\ pc = "normalized" =>
          \A i \in 1..Len(uploaded.headers) :
             \A c \in Range(required_columns) :
                (df[1].columns[i] = c) <=> VariantOf(uploaded.headers[i], c)
    /\ "check_required" \in executed =>
          ((error = "missing_columns") <=> (AbsentRequired(uploaded.headers) # {}))

\* " MEDIA TYPE " was accepted as media_type and the file was cleaned
C6_Witness ==
    /\ pc = "cleaned"
    /\ error = "none"
    /\ uploaded.headers[6] = <<" ","M","E","D","I","A"," ","T","Y","P","E"," ">>
    /\ df[1].columns[6] = c_media_type

-----------------------------------------------------------------------------
(* Top locations: chart 5 on datasets that name many locations.            *)

MaxLocationRows == 7    \* rows of a dataset of the location runs

\* what lines 331-366 leave of a file that has every required column and no
\* unreadable date
Cleaned(file) ==
    LET frame == ReadCsvFrame(file)
        named == [frame EXCEPT !.columns =
                     [i \in 1..Len(frame.columns) |-> Normalize(frame.columns[i])]]
        dated == SetColumn(named, c_date, ToDatetime(Column(named, c_date)))
    IN  SetColumn(dated, c_engagements, FillNa(Column(dated, c_engagements)))

\* the stages of the script before the charts
StagesBeforeCharts ==
    {"read_csv", "normalize", "check_required", "to_datetime",
     "fill_engagements", "download", "date_filter", "platform_filter",
     "sentiment_filter", "media_type_filter", "location_filter"}

\* a run of the script on run.file, which lines 331-366 clean to run.frame,
\* with no API key and every sidebar widget left at its default, has reached
\* chart 5
AtChartLocations(run) ==
    LET file == run.file
        frame == run.frame
        dates == Column(frame, c_date)
        eng == ColIndex(frame, c_engagements)
    IN  /\ uploaded = file
        /\ pc = "chart_locations"
        /\ df = Some(frame)
        /\ error = "none"
        /\ missing_cols = <<>>
        /\ initial_na_engagements =
              Some(CountNull(Column(SetColumn(frame, c_engagements,
                  InferEngagements([i \in 1..Len(file.rows) |-> file.rows[i][5]])),
                  c_engagements)))
        /\ csv_cleaned = Some(frame.rows)
        /\ executed = StagesBeforeCharts \cup
              {"chart_sentiment", "chart_media_type", "chart_trend",
               "chart_platform"}
        /\ date_range = DefaultDateRange(SeriesMin(dates), SeriesMax(dates))
        /\ start_date = FromDate(date_range[1])
        /\ end_date = FromDate(date_range[2])
        /\ df_filtered = FilterDates(frame.rows, ColIndex(frame, c_date),
                                     start_date, end_date)
        /\ selected_platforms = Unique(df_filtered, ColIndex(frame, c_platform))
        /\ selected_sentiments = Unique(df_filtered, ColIndex(frame, c_sentiment))
        /\ selected_media_types = Unique(df_filtered, ColIndex(frame, c_media_type))
        /\ selected_locations = Unique(df_filtered, ColIndex(frame, c_location))
        /\ sentiment_counts = ValueCounts(df_filtered, ColIndex(frame, c_sentiment))
        /\ media_type_counts = ValueCounts(df_filtered, ColIndex(frame, c_media_type))
        /\ daily_engagements =
              (CHOOSE q \in Orderings(GroupTotals(df_filtered,
                                                  ColIndex(frame, c_date), eng)) :
                  \A i \in 1..(Len(q) - 1) : q[i][1] < q[i + 1][1])
        /\ platform_engagements \in
              SortedDescending(GroupTotals(df_filtered,
                                           ColIndex(frame, c_platform), eng))
        /\ location_engagements = <<>>
        /\ openrouter_api_key = ""
        /\ selected_model = Models[1]
        /\ client = None
        /\ insight_cache = <<>>
        /\ provider_calls = <<>>
        /\ data_description = <<>>
        /\ figures_for_pdf =
              {"1. Sentiment Breakdown", "2. Media Type Mix",
               "3. Engagement Trend Over Time", "4. Platform Engagements"}
        /\ insights_for_pdf = <<>>
        /\ pdf = "none"
        /\ reruns = 0

\* a row of a location dataset: one day, one platform, one sentiment
LocationRow(location, v) ==
    <<DateAt(0, 0), "Facebook", "Positive", location, EngNum(v), "Image">>

\* the order in which the datasets name their locations for the first time
FirstSeenOrder ==
    <<"Dubai", "Cairo", "Ankara", "Giza", "Baku", "Fez", "Erbil">>

\* the rows that can follow table t: one more record of the location of its
\* first row, or the first record of the next location
FollowingRows(t) ==
    LET used == Cardinality({t[i][4] : i \in 1..Len(t)})
    IN  (IF t = <<>> THEN {} ELSE {LocationRow(t[1][4], 1)})
        \cup (IF used < Len(FirstSeenOrder)
              THEN {LocationRow(FirstSeenOrder[used + 1], v) : v \in {1, 2}}
              ELSE {})

RECURSIVE LocationTablesOf(_)
\* the datasets of n rows
LocationTablesOf(n) ==
    IF n = 0 THEN {<<>>}
    ELSE UNION {{Append(t, r) : r \in FollowingRows(t)} :
                   t \in LocationTablesOf(n - 1)}

LocationUploads ==
    {[status |-> "ok",
      headers |-> <<h_Date, h_Platform, h_Sentiment, h_Location, h_Engagements,
                    h_Media_Type>>,
      rows |-> t] : t \in UNION {LocationTablesOf(n) : n \in 1..MaxLocationRows}}

\* the uploads with what cleaning leaves of them
LocationRuns == {[file |-> f, frame |-> Cleaned(f)] : f \in LocationUploads}

InitLocations == \E run \in LocationRuns : AtChartLocations(run)

NextLocations == ChartLocations

SpecLocations == InitLocations /\ [][NextLocations]_vars

\* total engagements of the rows 1..n of df_filtered that name location
RECURSIVE LocationTotalUpTo(_, _)
LocationTotalUpTo(location, n) ==
    IF n = 0 THEN 0
    ELSE LocationTotalUpTo(location, n - 1)
         + (IF df_filtered[n][4] = location THEN df_filtered[n][5].v ELSE 0)

LocationTotal(location) == LocationTotalUpTo(location, Len(df_filtered))

\* the locations listed by chart 5
Listed == {location_engagements[i][1] : i \in 1..Len(location_engagements)}

(* C11: the top locations are at most five, in non-increasing order of     *)
(* total, each total is the sum of the engagements of the records of that  *)
(* location, and no location left out has a strictly larger total than a   *)
(* listed one.                                                             *)
C11_TopLocations ==
    "chart_locations" \in executed =>
        /\ Len(location_engagements) <= TopN
        /\ Cardinality(Listed) = Len(location_engagements)
        /\ Listed \subseteq Unique(df_filtered, 4)
        /\ \A i \in 1..(Len(location_engagements) - 1) :
              location_engagements[i][2].v >= location_engagements[i + 1][2].v
        /\ \A i \in 1..Len(location_engagements) :
              location_engagements[i][2]
                 = Num(LocationTotal(location_engagements[i][1]))
        /\ \A out \in Unique(df_filtered, 4) \ Listed :
              \A i \in 1..Len(location_engagements) :
                 LocationTotal(out) <= location_engagements[i][2].v

\* chart 5 has cut a dataset of more than five locations, the location left
\* out has the total of a listed one, and a location has several records
C11_Witness ==
    /\ "chart_locations" \in executed
    /\ Len(location_engagements) = TopN
    /\ Cardinality(Unique(df_filtered, 4)) > TopN
    /\ \E out \in Unique(df_filtered, 4) \ Listed :
          LocationTotal(out) = location_engagements[TopN][2].v
    /\ location_engagements[1][2].v > location_engagements[TopN][2].v
    /\ Len(df_filtered) > Cardinality(Unique(df_filtered, 4))

\* the row of df_filtered that names location first
FirstRow(location) ==
    CHOOSE i \in 1..Len(df_filtered) :
        /\ df_filtered[i][4] = location
        /\ \A j \in 1..(i - 1) : df_filtered[j][4] # location

(* C12: locations of equal total are listed, and kept at the cutoff, in    *)
(* the order in which they first appear in the records.                    *)
C12_TiesInFirstAppearanceOrder ==
    "chart_locations" \in executed =>
        /\ \A i, j \in 1..Len(location_engagements) :
              (i < j /\ location_engagements[i][2] = location_engagements[j][2])
                 => FirstRow(location_engagements[i][1])
                       < FirstRow(location_engagements[j][1])
        /\ \A out \in Unique(df_filtered, 4) \ Listed :
              \A i \in 1..Len(location_engagements) :
                 LocationTotal(out) = location_engagements[i][2].v
                    => FirstRow(location_engagements[i][1]) < FirstRow(out)

-----------------------------------------------------------------------------
(* A session: the page is opened, then every interaction with a widget      *)
(* runs the script again from the top.  The widgets keep their values, the *)
(* st.cache_data store outlives the runs, everything else is rebuilt.      *)

MaxReruns == 3      \* interactions of a session

\* the file the user of the session uploads: a record at midnight of day 0
\* and a record of day 1 later than midnight
SessionUpload ==
    [status |-> "ok",
     headers |-> <<h_Date, h_Platform, h_Sentiment, h_Location, h_Engagements,
                   h_Media_Type>>,
     rows |-> << <<DateAt(0, 0), "Facebook", "Positive", "Dubai", EngNum(3), "Image">>,
                 <<DateAt(1, 1), "Facebook", "Negative", "Dubai", EngNum(1), "Image">> >>]

\* the keys the user can type
ApiKeys == {"sk-or-1", "sk-or-2"}

\* where a run of the script can end
RunEnded == {"idle", "ended", "stopped", "failed", "completed"}

\* what lines 331-366 leave of the file of the session
SessionFrame == Cleaned(SessionUpload)

\* df['date'].min() and .max() of the session
SessionMinDate == SeriesMin(Column(SessionFrame, c_date))
SessionMaxDate == SeriesMax(Column(SessionFrame, c_date))

\* the rows the date filter keeps of the file of the session
DateFiltered(dr) ==
    LET start == IF Len(dr) = 0 THEN SessionMinDate ELSE FromDate(dr[1])
        end   == IF Len(dr) = 2 THEN FromDate(dr[2]) ELSE SessionMaxDate
    IN  FilterDates(SessionFrame.rows, ColIndex(SessionFrame, c_date), start, end)

\* the options of the sentiment multiselect, the other widgets at default
SentimentOptions(dr) == Unique(DateFiltered(dr), 3)

\* the widgets as an interaction can leave them: one widget changes (a file
\* is uploaded, a key typed, a model picked, the dates or the sentiments
\* changed), or none does (a click on the report button).  A multiselect
\* whose options changed shows its default, every option.
Interactions ==
    LET now == [file |-> uploaded, key |-> openrouter_api_key,
                model |-> selected_model, dr |-> date_range,
                sel |-> selected_sentiments]
        default == DefaultDateRange(SessionMinDate, SessionMaxDate)
    IN  {now}
        \cup {[now EXCEPT !.key = k] : k \in ApiKeys \ {now.key}}
        \cup {[now EXCEPT !.model = Models[i]] :
                 i \in {j \in 1..Len(Models) : Models[j] # now.model}}
        \cup (IF uploaded.status = "none"
              THEN {[now EXCEPT
                       !.file = SessionUpload,
                       !.dr = default,
                       !.sel = SentimentOptions(default)]}
              ELSE {[now EXCEPT
                       !.dr = dr,
                       !.sel = IF SentimentOptions(dr) = SentimentOptions(now.dr)
                               THEN @ ELSE SentimentOptions(dr)] :
                          dr \in {d \in DateRanges(SessionMinDate, SessionMaxDate) :
                                     d # now.dr /\ (Len(d) = 2 => d[1] <= d[2])}}
                   \cup {[now EXCEPT !.sel = s] :
                            s \in (SUBSET SentimentOptions(now.dr))
                                     \ {now.sel}})

\* lines 142-475 with the widgets at w: the sidebar builds the client, the
\* file (none, or the file of the session) is read, cleaned and filtered, and
\* the empty-data guard
\* stops the run or lets it reach the charts.  The platform, media type and
\* location widgets show their default, every option.
RunScript(w) ==
    /\ uploaded' = w.file
    /\ openrouter_api_key' = w.key
    /\ selected_model' = w.model
    /\ client' = IF w.key = "" THEN None ELSE Some(w.key)
    /\ error' = "none"
    /\ missing_cols' = <<>>
    /\ sentiment_counts' = <<>>
    /\ media_type_counts' = <<>>
    /\ daily_engagements' = <<>>
    /\ platform_engagements' = <<>>
    /\ location_engagements' = <<>>
    /\ data_description' = <<>>
    /\ figures_for_pdf' = {}
    /\ insights_for_pdf' = <<>>
    /\ pdf' = "none"
    /\ date_range' = w.dr
    /\ selected_sentiments' = w.sel
    /\ IF w.file.status = "none"
       THEN /\ df' = None
            /\ initial_na_engagements' = None
            /\ csv_cleaned' = None
            /\ executed' = {}
            /\ start_date' = NaT
            /\ end_date' = NaT
            /\ df_filtered' = <<>>
            /\ selected_platforms' = {}
            /\ selected_media_types' = {}
            /\ selected_locations' = {}
            /\ pc' = "idle"
       ELSE LET frame == SessionFrame
                dated == DateFiltered(w.dr)
                rows == ApplySelection(dated, ColIndex(frame, c_sentiment), w.sel)
            IN  /\ df' = Some(frame)
                /\ initial_na_engagements' =
                      Some(CountNull(InferEngagements(
                          [i \in 1..Len(w.file.rows) |-> w.file.rows[i][5]])))
                /\ csv_cleaned' = Some(frame.rows)
                /\ executed' = StagesBeforeCharts
                /\ start_date' = IF Len(w.dr) = 0 THEN SessionMinDate
                                 ELSE FromDate(w.dr[1])
                /\ end_date' = IF Len(w.dr) = 2 THEN FromDate(w.dr[2])
                               ELSE SessionMaxDate
                /\ df_filtered' = rows
                /\ selected_platforms' = Unique(dated, ColIndex(frame, c_platform))
                /\ selected_media_types' = Unique(rows, ColIndex(frame, c_media_type))
                /\ selected_locations' = Unique(rows, ColIndex(frame, c_location))
                /\ pc' = AfterGuard(rows)
    /\ UNCHANGED <<insight_cache, provider_calls>>

\* the run that opening the page starts: no file, no key
FirstRun ==
    /\ pc = "start"
    /\ RunScript([file |-> uploaded, key |-> openrouter_api_key,
                  model |-> selected_model, dr |-> date_range,
                  sel |-> selected_sentiments])
    /\ UNCHANGED reruns

\* an interaction after a run has ended: the script runs again
Rerun ==
    /\ pc \in RunEnded
    /\ reruns < MaxReruns
    /\ \E w \in Interactions : RunScript(w)
    /\ reruns' = reruns + 1

NextSession ==
    \/ FirstRun
    \/ Rerun
    \/ ChartSentiment
    \/ ChartMediaType
    \/ ChartTrend
    \/ ChartPlatform
    \/ ChartLocations
    \/ Report

SpecSession == Init /\ [][NextSession]_vars

-----------------------------------------------------------------------------
\* the five charts: the key of figures_for_pdf / insights_for_pdf and the
\* chart_title handed to get_insights
Figures ==
    {"1. Sentiment Breakdown", "2. Media Type Mix",
     "3. Engagement Trend Over Time", "4. Platform Engagements",
     "5. Top 5 Locations by Engagements"}

TitleOf(figure) ==
    CASE figure = "1. Sentiment Breakdown" -> "Sentiment Breakdown"
      [] figure = "2. Media Type Mix" -> "Media Type Mix"
      [] figure = "3. Engagement Trend Over Time" -> "Engagement Trend Over Time"
      [] figure = "4. Platform Engagements" -> "Platform Engagements"
      [] figure = "5. Top 5 Locations by Engagements"
            -> "Top 5 Locations by Engagements"

\* the requests of the current run
CallsOfRun == {i \in 1..Len(provider_calls) : provider_calls[i].run = reruns}

\* the requests of the current run that the provider failed
FailedCalls == {i \in CallsOfRun : provider_calls[i].reply \in ProviderErrors}

\* the aggregates of the charts are those of df_filtered
ChartsOfFilteredData ==
    /\ sentiment_counts = ValueCounts(df_filtered, 3)
    /\ media_type_counts = ValueCounts(df_filtered, 6)
    /\ {daily_engagements[i] : i \in 1..Len(daily_engagements)}
          = GroupTotals(df_filtered, 1, 5)
    /\ {platform_engagements[i] : i \in 1..Len(platform_engagements)}
          = GroupTotals(df_filtered, 2, 5)
    /\ {location_engagements[i] : i \in 1..Len(location_engagements)}
          = GroupTotals(df_filtered, 4, 5)

(* C13: a request the provider fails leaves an error string as the insight *)
(* of its chart and nothing else: no error is raised, the figure of the    *)
(* chart is kept, and a run that has ended has completed with all five     *)
(* charts built from df_filtered and an insight recorded for each.         *)
C13_ProviderFailureConfined ==
    \A i \in FailedCalls :
        LET figure == CHOOSE f \in Figures : TitleOf(f) = provider_calls[i].title
        IN  /\ figure \in DOMAIN insights_for_pdf
            /\ insights_for_pdf[figure] = Returned(provider_calls[i].reply)
            /\ figure \in figures_for_pdf
            /\ error = "none"
            /\ pc # "failed"
            /\ pc \in RunEnded =>
                  /\ pc = "completed"
                  /\ figures_for_pdf = Figures
                  /\ DOMAIN insights_for_pdf = Figures
                  /\ ChartsOfFilteredData
                  /\ \A f \in Figures \ {figure} :
                        insights_for_pdf[f] =
                           insight_cache[<<data_description[f], TitleOf(f),
                                           selected_model>>]

\* a completed run in which the provider failed the request of one chart and
\* answered the request of another
C13_Witness ==
    /\ pc = "completed"
    /\ FailedCalls # {}
    /\ \E i \in CallsOfRun : provider_calls[i].reply \in ProviderContents
    /\ \E f \in Figures : insights_for_pdf[f] \in ProviderContents

-----------------------------------------------------------------------------
\* the text the current run hands to get_insights for a chart is the
\* to_string() of the aggregate of the current df_filtered
DescriptionIsCurrent(figure) ==
    CASE figure = "1. Sentiment Breakdown" ->
            data_description[figure] \in CountsDescriptions("sentiment", df_filtered, 3)
      [] figure = "2. Media Type Mix" ->
            data_description[figure] \in CountsDescriptions("media_type", df_filtered, 6)
      [] figure = "3. Engagement Trend Over Time" ->
            data_description[figure] = TrendToString(daily_engagements)
      [] figure = "4. Platform Engagements" ->
            data_description[figure] = TotalsToString("platform", platform_engagements)
      [] figure = "5. Top 5 Locations by Engagements" ->
            data_description[figure] = TotalsToString("location", location_engagements)

\* request i was made with the text, the title and the model that the
\* current run has for the chart
SameTriple(i, figure) ==
    /\ provider_calls[i].description = data_description[figure]
    /\ provider_calls[i].title = TitleOf(figure)
    /\ provider_calls[i].model = selected_model

(* C14: the insight a run shows for a chart is what get_insights returned  *)
(* for a request whose aggregate text, chart title and model are those of  *)
(* the current run, and that text is the text of the chart's aggregate     *)
(* under the current filters.                                              *)
C14_NoStaleInsight ==
    \A figure \in DOMAIN insights_for_pdf :
        /\ DescriptionIsCurrent(figure)
        /\ \E i \in 1..Len(provider_calls) :
              /\ SameTriple(i, figure)
              /\ insights_for_pdf[figure] = Returned(provider_calls[i].reply)

\* a run after a change of the filters: one insight comes from a request of
\* an earlier run, another needed a request of its own
C14_Witness ==
    /\ pc = "completed"
    /\ \E figure \in DOMAIN insights_for_pdf :
          \E i \in 1..Len(provider_calls) :
             /\ SameTriple(i, figure)
             /\ provider_calls[i].run < reruns
    /\ \E figure \in DOMAIN insights_for_pdf :
          \E i \in CallsOfRun : SameTriple(i, figure)
    /\ \E i \in 1..Len(provider_calls) :
          /\ provider_calls[i].title = "Sentiment Breakdown"
          /\ provider_calls[i].description # data_description["1. Sentiment Breakdown"]

\* the stages that build a chart
ChartStages ==
    {"chart_sentiment", "chart_media_type", "chart_trend", "chart_platform",
     "chart_locations"}

(* C15: a run whose filtered dataset is empty stops at the guard: it builds *)
(* no aggregate and no figure, sends no request to the provider and never  *)
(* reaches the report; a run that built a chart or sent a request has a    *)
(* filtered dataset that is not empty.                                     *)
C15_EmptyStopsBeforeCharts ==
    /\ ("location_filter" \in executed /\ df_filtered = <<>>) =>
          /\ pc \in {"filtered", "stopped"}
          /\ executed \cap (ChartStages \cup {"complete"}) = {}
          /\ figures_for_pdf = {}
          /\ sentiment_counts = <<>> /\ media_type_counts = <<>>
          /\ daily_engagements = <<>> /\ platform_engagements = <<>>
          /\ location_engagements = <<>>
          /\ CallsOfRun = {}
          /\ insights_for_pdf = <<>>
          /\ pdf = "none"
    /\ (executed \cap ChartStages # {} \/ CallsOfRun # {} \/ figures_for_pdf # {}
        \/ pc \in ChartStages \cup {"report", "completed"})
          => df_filtered # <<>>

\* a run with an API key, after runs that sent requests, stopped at the guard
C15_Witness ==
    /\ pc = "stopped"
    /\ client # None
    /\ provider_calls # <<>>
    /\ df[1].rows # <<>>

\* a step leaves every entry of the cache as it is, and a call of
\* get_insights whose arguments have an entry shows that entry and sends no
\* request
CacheStep ==
    /\ \A key \in DOMAIN insight_cache :
          /\ key \in DOMAIN insight_cache'
          /\ insight_cache'[key] = insight_cache[key]
    /\ \A figure \in (DOMAIN insights_for_pdf') \ DOMAIN insights_for_pdf :
          LET key == <<data_description'[figure], TitleOf(figure), selected_model>>
          IN  key \in DOMAIN insight_cache =>
                 /\ insights_for_pdf'[figure] = insight_cache[key]
                 /\ provider_calls' = provider_calls

(* C16: the cache is keyed on (description, chart title, model) alone: what *)
(* get_insights returned for a triple, a provider error string included,   *)
(* is what every later call with that triple returns, with no new request, *)
(* whatever API key is entered by then.                                    *)
C16_CacheIgnoresApiKey == [][CacheStep]_vars

\* a run under one key shows the error string that a request under another
\* key left in the cache
C16_Witness ==
    \E figure \in DOMAIN insights_for_pdf :
       \E i \in 1..Len(provider_calls) :
          /\ SameTriple(i, figure)
          /\ provider_calls[i].reply \in ProviderErrors
          /\ provider_calls[i].api_key # client[1]
          /\ provider_calls[i].run < reruns
          /\ insights_for_pdf[figure] = Returned(provider_calls[i].reply)

====
